---- MODULE Spec2Model ----
(***************************************************************************)
(* A model of sql_tool/server.py: four tools served over one database.     *)
(*                                                                         *)
(* Text that the code inspects character by character (query text, table   *)
(* names, the substring q, formatted cell values) is a sequence of         *)
(* one-character strings.  Text the code only passes along (exception      *)
(* messages, result keys) is a string.                                     *)
(***************************************************************************)
EXTENDS Integers, Sequences, FiniteSets, TLC

(***************************************************************************)
(* Python str operations used by the tools.                                *)
(***************************************************************************)
Whitespace == {" ", "\n", "\t"}

LowerLetters == <<"a", "b", "c", "d", "e", "f", "g", "h", "i", "j", "k", "l", "m",
                  "n", "o", "p", "q", "r", "s", "t", "u", "v", "w", "x", "y", "z">>

UpperLetters == <<"A", "B", "C", "D", "E", "F", "G", "H", "I", "J", "K", "L", "M",
                  "N", "O", "P", "Q", "R", "S", "T", "U", "V", "W", "X", "Y", "Z">>

UpperChar(ch) ==
    IF \E i \in 1..26 : LowerLetters[i] = ch
    THEN UpperLetters[CHOOSE i \in 1..26 : LowerLetters[i] = ch]
    ELSE ch

\* str.upper()
Upper(s) == [i \in 1..Len(s) |-> UpperChar(s[i])]

RECURSIVE LStrip(_)
LStrip(s) ==
    IF s # <<>> /\ Head(s) \in Whitespace THEN LStrip(Tail(s)) ELSE s

RECURSIVE RStrip(_)
RStrip(s) ==
    IF s # <<>> /\ s[Len(s)] \in Whitespace
    THEN RStrip(SubSeq(s, 1, Len(s) - 1))
    ELSE s

\* str.strip(): whitespace is removed at both ends
Strip(s) == RStrip(LStrip(s))

\* str.startswith(p)
StartsWith(s, p) == Len(s) >= Len(p) /\ SubSeq(s, 1, Len(p)) = p

\* the Python test `q in x` on two strings
Contains(q, x) ==
    \E i \in 0..(Len(x) - Len(q)) : SubSeq(x, i + 1, i + Len(q)) = q

\* sep.join(items)
RECURSIVE Join(_, _)
Join(sep, items) ==
    IF items = <<>> THEN <<>>
    ELSE IF Len(items) = 1 THEN items[1]
    ELSE items[1] \o sep \o Join(sep, Tail(items))

Digits == <<"0", "1", "2", "3", "4", "5", "6", "7", "8", "9">>

\* str(n) for a non-negative int
RECURSIVE NatText(_)
NatText(n) ==
    IF n < 10 THEN <<Digits[n + 1]>>
    ELSE NatText(n \div 10) \o <<Digits[(n % 10) + 1]>>

\* str(n) for an int
IntText(n) == IF n < 0 THEN <<"-">> \o NatText(-n) ELSE NatText(n)

\* the zero-padded fields of date.isoformat()
RECURSIVE ZeroPad(_, _)
ZeroPad(t, width) == IF Len(t) >= width THEN t ELSE ZeroPad(<<"0">> \o t, width)

\* int(text): the value of a decimal string, or -1 where int() raises ValueError
RECURSIVE DigitsValue(_, _)
DigitsValue(t, acc) ==
    IF t = <<>> THEN acc
    ELSE DigitsValue(Tail(t),
                     10 * acc + ((CHOOSE i \in 1..10 : Digits[i] = Head(t)) - 1))

ParseInt(t) ==
    IF t # <<>> /\ \A i \in 1..Len(t) : \E j \in 1..10 : Digits[j] = t[i]
    THEN DigitsValue(t, 0)
    ELSE -1

(***************************************************************************)
(* Python values that travel through the tools as bind values and cells.   *)
(***************************************************************************)
PyNone == [kind |-> "none", text |-> <<>>, num |-> <<>>]
PyStr(t) == [kind |-> "str", text |-> t, num |-> <<>>]
PyInt(n) == [kind |-> "int", text |-> <<>>, num |-> <<n>>]
PyDate(y, m, d) == [kind |-> "date", text |-> <<>>, num |-> <<y, m, d>>]

\* date.isoformat()
IsoFormat(val) ==
    ZeroPad(NatText(val.num[1]), 4) \o <<"-">> \o ZeroPad(NatText(val.num[2]), 2)
        \o <<"-">> \o ZeroPad(NatText(val.num[3]), 2)

\* execute_query.format_value
format_value(val) ==
    IF val.kind = "none" THEN <<"N", "U", "L", "L">>
    ELSE IF val.kind = "date" THEN IsoFormat(val)
    ELSE IF val.kind = "int" THEN IntText(val.num[1])
    ELSE val.text

\* the values of a reflected column dict: bools, and the type object whose str()
\* is the type's name
PyBool(b) == [kind |-> "bool", text |-> <<>>, num |-> <<IF b THEN 1 ELSE 0>>]
PyType(t) == [kind |-> "type", text |-> t, num |-> <<>>]

TxtName == <<"n", "a", "m", "e">>
TxtType == <<"t", "y", "p", "e">>
TxtNullable == <<"n", "u", "l", "l", "a", "b", "l", "e">>
TxtDefault == <<"d", "e", "f", "a", "u", "l", "t">>
TxtAutoincrement == <<"a", "u", "t", "o", "i", "n", "c", "r", "e", "m", "e", "n", "t">>
TxtComment == <<"c", "o", "m", "m", "e", "n", "t">>
TxtPrimaryKeyField == <<"p", "r", "i", "m", "a", "r", "y", "_", "k", "e", "y">>
TxtPrimaryKey == <<"p", "r", "i", "m", "a", "r", "y", " ", "k", "e", "y">>
TxtRelationships == <<" ", " ", " ", " ", "R", "e", "l", "a", "t", "i", "o", "n", "s", "h", "i", "p", "s", ":">>
TxtTrue == <<"T", "r", "u", "e">>
TxtFalse == <<"F", "a", "l", "s", "e">>
TxtNone == <<"N", "o", "n", "e">>
TxtSELECT == <<"S", "E", "L", "E", "C", "T">>
TypeTEXT == <<"T", "E", "X", "T">>
TypeDATE == <<"D", "A", "T", "E">>
TypeINTEGER == <<"I", "N", "T", "E", "G", "E", "R">>

\* Python truthiness, as tested by `if v`
Truthy(v) ==
    CASE v.kind = "none" -> FALSE
      [] v.kind = "bool" -> v.num[1] = 1
      [] v.kind = "int" -> v.num[1] # 0
      [] v.kind = "str" -> v.text # <<>>
      [] OTHER -> TRUE

\* Python str(v), as used by f-strings and str()
StrOf(v) ==
    CASE v.kind = "none" -> TxtNone
      [] v.kind = "bool" -> IF v.num[1] = 1 THEN TxtTrue ELSE TxtFalse
      [] v.kind = "int" -> IntText(v.num[1])
      [] v.kind = "date" -> IsoFormat(v)
      [] OTHER -> v.text

(***************************************************************************)
(* Python dicts keep insertion order: a dict is a sequence of <<key,        *)
(* value>> pairs with distinct keys.                                        *)
(***************************************************************************)
DictHas(d, k) == \E i \in 1..Len(d) : d[i][1] = k
DictGet(d, k) == d[CHOOSE i \in 1..Len(d) : d[i][1] = k][2]
DictDel(d, k) == SelectSeq(d, LAMBDA p : p[1] # k)

(***************************************************************************)
(* schema_definitions.format: the column loop (lines 57-63).               *)
(***************************************************************************)
show_key_only == {TxtNullable, TxtAutoincrement}

\* line 58-59: the comment entry is deleted before anything is rendered
DropComment(column) ==
    IF DictHas(column, TxtComment) THEN DictDel(column, TxtComment) ELSE column

\* line 61 with the marker kept for single-column keys only
PrimaryKeyMarkSingle(name, primary_keys) ==
    IF primary_keys = {name} THEN <<TxtPrimaryKey>> ELSE <<>>

\* line 61: the primary-key marker, by membership in the constraint set
PrimaryKeyMark(name, primary_keys) ==
    IF name \in primary_keys THEN <<TxtPrimaryKey>> ELSE <<>>

\* line 62: one part per remaining truthy entry
RECURSIVE AttributeParts(_)
AttributeParts(column) ==
    IF column = <<>> THEN <<>>
    ELSE LET k == Head(column)[1]
             v == Head(column)[2]
             rest == AttributeParts(Tail(column))
         IN IF ~Truthy(v) THEN rest
            ELSE IF k \in show_key_only THEN <<k>> \o rest
            ELSE <<k \o <<"=">> \o StrOf(v)>> \o rest

\* What one pass of the loop body does to one column dict.  column.pop raises
\* KeyError when the key is gone.
FormatColumn(column, primary_keys) ==
    LET c1 == DropComment(column) IN
    IF ~DictHas(c1, TxtName)
    THEN [raised |-> TRUE, name |-> <<>>, parts |-> <<>>, line |-> <<>>, left |-> c1]
    ELSE LET name == StrOf(DictGet(c1, TxtName))
             c2 == DictDel(c1, TxtName)
         IN IF ~DictHas(c2, TxtType)
            THEN [raised |-> TRUE, name |-> name, parts |-> <<>>, line |-> <<>>,
                  left |-> c2]
            ELSE LET typ == StrOf(DictGet(c2, TxtType))
                     c3 == DictDel(c2, TxtType)
                     parts == PrimaryKeyMark(name, primary_keys) \o <<typ>>
                                  \o AttributeParts(c3)
                 IN [raised |-> FALSE, name |-> name, parts |-> parts,
                     line |-> <<" ", " ", " ", " ">> \o name \o <<":", " ">>
                                  \o Join(<<",", " ">>, parts),
                     left |-> c3]

\* lines 66-72: the relationship lines of one table
RelationshipLines(foreign_keys) ==
    IF foreign_keys = <<>> THEN <<>>
    ELSE <<<<>>, TxtRelationships>> \o
         [i \in 1..Len(foreign_keys) |->
             <<" ", " ", " ", " ", " ", " ">>
                 \o Join(<<",", " ">>, foreign_keys[i].constrained_columns)
                 \o <<" ", "-", ">", " ">> \o foreign_keys[i].referred_table
                 \o <<".">> \o Join(<<",", " ">>, foreign_keys[i].referred_columns)]


\* lines 57-63 over all columns of a table; the first KeyError ends the loop
RECURSIVE FormatColumns(_, _)
FormatColumns(columns, primary_keys) ==
    IF columns = <<>>
    THEN [raised |-> FALSE, lines |-> <<>>, described |-> <<>>, left |-> <<>>]
    ELSE LET h == FormatColumn(Head(columns), primary_keys) IN
         IF h.raised
         THEN [raised |-> TRUE, lines |-> <<>>, described |-> <<>>,
               left |-> <<h.left>> \o Tail(columns)]
         ELSE LET r == FormatColumns(Tail(columns), primary_keys) IN
              [raised |-> r.raised,
               lines |-> <<h.line>> \o r.lines,
               described |-> <<[name |-> h.name, parts |-> h.parts]>> \o r.described,
               left |-> <<h.left>> \o r.left]

\* schema_definitions.format for one table whose metadata was fetched: the text it
\* returns, the column descriptors behind the text, and the column dicts as the
\* loop leaves them (they are modified in place)
format(table_name, columns, foreign_keys, primary_keys) ==
    LET r == FormatColumns(columns, primary_keys) IN
    [raised |-> r.raised,
     text |-> Join(<<"\n">>, <<table_name \o <<":">>>> \o r.lines
                                 \o RelationshipLines(foreign_keys)),
     described |-> [table |-> table_name, primary_keys |-> primary_keys,
                    columns |-> r.described],
     left |-> r.left]

(***************************************************************************)
(* The database behind DB_URL, as the tools observe it through SQLAlchemy. *)
(* Three tables: t(a TEXT primary key, n DATE), tu(id, a -> t.a) and       *)
(* u(k1, k2, c) with a composite key.  Statements change the rows of t and *)
(* create or drop u.                                                       *)
(***************************************************************************)
TableT == <<"t">>
TableTU == <<"t", "u">>
TableU == <<"u">>

Column(name, type, nullable, default) ==
    <<<<TxtName, PyStr(name)>>, <<TxtType, PyType(type)>>,
      <<TxtNullable, PyBool(nullable)>>, <<TxtDefault, default>>>>

ReflectedColumns(table_name) ==
    CASE table_name = TableT ->
           <<Column(<<"a">>, TypeTEXT, FALSE, PyNone)
                 \o <<<<TxtPrimaryKeyField, PyInt(1)>>,
                      <<TxtComment, PyStr(<<"k", "e", "y">>)>>>>,
             Column(<<"n">>, TypeDATE, TRUE, PyNone)
                 \o <<<<TxtPrimaryKeyField, PyInt(0)>>, <<TxtComment, PyNone>>>>>>
      [] table_name = TableTU ->
           <<Column(<<"i", "d">>, TypeINTEGER, FALSE, PyNone)
                 \o <<<<TxtAutoincrement, PyBool(TRUE)>>>>,
             Column(<<"a">>, TypeTEXT, TRUE, PyStr(<<"'", "x", "'">>))>>
      [] table_name = TableU ->
           <<Column(<<"k", "1">>, TypeINTEGER, FALSE, PyNone),
             Column(<<"k", "2">>, TypeINTEGER, FALSE, PyInt(0)),
             Column(<<"c">>, TypeTEXT, TRUE, PyNone)
                 \o <<<<TxtComment, PyStr(<<"n", "o", "t", "e">>)>>>>>>

ReflectedPrimaryKey(table_name) ==
    CASE table_name = TableT -> {<<"a">>}
      [] table_name = TableTU -> {<<"i", "d">>}
      [] table_name = TableU -> {<<"k", "1">>, <<"k", "2">>}

ReflectedForeignKeys(table_name) ==
    IF table_name = TableTU
    THEN <<[constrained_columns |-> <<<<"a">>>>, referred_table |-> TableT,
            referred_columns |-> <<<<"a">>>>]>>
    ELSE <<>>

\* inspector.get_table_names()
get_table_names(d) == <<TableT, TableTU>> \o (IF d.hasU THEN <<TableU>> ELSE <<>>)

HasTable(d, table_name) == \E i \in 1..Len(get_table_names(d)) : get_table_names(d)[i] = table_name

NoExc == [type |-> "none", msg |-> "", table |-> <<>>]
Exc(type, msg) == [type |-> type, msg |-> msg, table |-> <<>>]
NoSuchTableError(table_name) == [type |-> "NoSuchTableError", msg |-> "", table |-> table_name]

SqlSelectAll ==
    <<"S", "E", "L", "E", "C", "T", " ", "*", " ", "F", "R", "O", "M", " ", "t">>
SqlSelectLower ==
    <<" ", " ", "s", "e", "l", "e", "c", "t", " ", "*", " ", "f", "r", "o", "m", " ", "t",
      "\n">>
SqlSelectWhere ==
    <<"S", "E", "L", "E", "C", "T", " ", "*", " ", "F", "R", "O", "M", " ", "t", " ", "W",
      "H", "E", "R", "E", " ", "a", " ", "=", " ", ":", "v">>
SqlInsert ==
    <<"I", "N", "S", "E", "R", "T", " ", "I", "N", "T", "O", " ", "t", " ", "V", "A", "L",
      "U", "E", "S", " ", "(", ":", "v", ")">>
SqlDelete ==
    <<"D", "E", "L", "E", "T", "E", " ", "F", "R", "O", "M", " ", "t">>
SqlDropU ==
    <<"D", "R", "O", "P", " ", "T", "A", "B", "L", "E", " ", "u">>
SqlCreateU ==
    <<"C", "R", "E", "A", "T", "E", " ", "T", "A", "B", "L", "E", " ", "u", " ", "(", "k",
      "1", " ", "I", "N", "T", ")">>
SqlWith ==
    <<"W", "I", "T", "H", " ", "c", " ", "A", "S", " ", "(", "S", "E", "L", "E", "C", "T",
      " ", "1", ")", " ", "S", "E", "L", "E", "C", "T", " ", "*", " ", "F", "R", "O", "M",
      " ", "c">>
SqlNoTable ==
    <<"S", "E", "L", "E", "C", "T", " ", "*", " ", "F", "R", "O", "M", " ", "n", "o", "p",
      "e">>
SqlProcedure ==
    <<"S", "e", "l", "e", "c", "t", "A", "l", "l">>
TxtInjection ==
    <<"'", ";", " ", "D", "R", "O", "P", " ", "T", "A", "B", "L", "E", " ", "t", ";", " ",
      "-", "-">>

BindV == <<"v">>

\* what conn.execute hands back: a cursor that returns rows, one that does not, or
\* an exception; `db` is the database after the statement
RowsCursor(columns, rows, d) ==
    [kind |-> "rows", columns |-> columns, rows |-> rows, exc |-> NoExc, db |-> d]
NoRowsCursor(d) ==
    [kind |-> "norows", columns |-> <<>>, rows |-> <<>>, exc |-> NoExc, db |-> d]
Raises(type, msg, d) ==
    [kind |-> "raise", columns |-> <<>>, rows |-> <<>>, exc |-> Exc(type, msg), db |-> d]

RowsOfT(d) == [i \in 1..Len(d.rows) |-> <<d.rows[i], PyNone>>]

\* The outcomes the database can give for a statement text and its bind values.
\* The database reads SQL keywords case-insensitively and ignores surrounding
\* whitespace.  A bare procedure name runs on some backends and is a syntax error
\* on others, so all three outcomes are possible for it.
DbExecute(d, stmt, binds) ==
    LET sql == Upper(Strip(stmt))
        hasV == DictHas(binds, BindV)
        v == DictGet(binds, BindV)
        missing == {Raises("StatementError", "A value is required for bind parameter 'v'", d)}
    IN CASE sql = Upper(SqlSelectAll) ->
              {RowsCursor(<<<<"a">>, <<"n">>>>, RowsOfT(d), d)}
         [] sql = Upper(SqlSelectWhere) ->
              IF ~hasV THEN missing
              ELSE {RowsCursor(<<<<"a">>, <<"n">>>>,
                               SelectSeq(RowsOfT(d), LAMBDA r : r[1] = v), d)}
         [] sql = Upper(SqlInsert) ->
              IF ~hasV THEN missing
              ELSE IF v = PyNone
                   THEN {Raises("IntegrityError", "NOT NULL constraint failed: t.a", d)}
              ELSE IF \E i \in 1..Len(d.rows) : d.rows[i] = v
                   THEN {Raises("IntegrityError", "UNIQUE constraint failed: t.a", d)}
              ELSE {NoRowsCursor([d EXCEPT !.rows = Append(@, v)])}
         [] sql = Upper(SqlDelete) -> {NoRowsCursor([d EXCEPT !.rows = <<>>])}
         [] sql = Upper(SqlDropU) ->
              IF d.hasU THEN {NoRowsCursor([d EXCEPT !.hasU = FALSE])}
              ELSE {Raises("OperationalError", "no such table: u", d)}
         [] sql = Upper(SqlCreateU) ->
              IF d.hasU THEN {Raises("OperationalError", "table u already exists", d)}
              ELSE {NoRowsCursor([d EXCEPT !.hasU = TRUE])}
         [] sql = Upper(SqlWith) -> {RowsCursor(<<<<"1">>>>, <<<<PyInt(1)>>>>, d)}
         [] sql = Upper(SqlNoTable) ->
              {Raises("OperationalError", "no such table: nope", d)}
         [] sql = Upper(SqlProcedure) ->
              {Raises("ProgrammingError", "syntax error", d),
               RowsCursor(<<<<"a">>, <<"n">>>>, RowsOfT(d), d),
               NoRowsCursor(d)}
         [] OTHER -> {Raises("ProgrammingError", "syntax error", d)}


(***************************************************************************)
(* The query executor's pure parts (lines 98-112).                         *)
(***************************************************************************)
\* line 11-16: create_engine(os.environ['DB_URL'], ...) raises KeyError when the
\* variable is unset and ArgumentError when the URL cannot be parsed; it does not
\* connect
get_engine(env) ==
    CASE env.DB_URL = "valid" -> NoExc
      [] env.DB_URL = "unset" -> Exc("KeyError", "'DB_URL'")
      [] OTHER -> Exc("ArgumentError", "Could not parse SQLAlchemy URL")

\* a statement text with the bind values written into it
RECURSIVE InterpolatedText(_, _)
InterpolatedText(query, params) ==
    IF params = <<>> THEN query
    ELSE InterpolatedText(query \o <<" ">> \o StrOf(Head(params)[2]), Tail(params))

\* line 101: text(query), the statement handed to the driver
StatementText(query, params) == query

\* line 101: `params or {}`, the bind values handed to the driver
BindValues(params) == IF params = <<>> THEN <<>> ELSE params

\* the test of line 102 without .upper()
IsReadCaseSensitive(query) == StartsWith(Strip(query), TxtSELECT)

\* line 102: query.strip().upper().startswith("SELECT")
IsRead(query) == StartsWith(Upper(Strip(query)), TxtSELECT)

\* line 103-108
ReadResult(cursor) ==
    <<<<"columns", cursor.columns>>,
      <<"rows", [i \in 1..Len(cursor.rows) |->
                    [j \in 1..Len(cursor.rows[i]) |-> format_value(cursor.rows[i][j])]]>>>>

\* line 110
StatusOk == <<<<"status", "ok">>>>

\* line 111-112: str(e)
ErrorResult(exc) == <<<<"error", exc.msg>>>>

\* lines 102-110, given the cursor of the executed statement: the value returned
\* and whether rows were fetched.  fetchall() on a cursor that returns no rows
\* raises ResourceClosedError, which line 111 catches.
FetchAndShape(query, cursor) ==
    IF IsRead(query)
    THEN [fetched |-> TRUE,
          result |-> IF cursor.kind = "rows" THEN ReadResult(cursor)
                     ELSE ErrorResult(Exc("ResourceClosedError",
                              "This result object does not return rows."))]
    ELSE [fetched |-> FALSE, result |-> StatusOk]

\* line 45 with the containment test made case-insensitive
filter_ignoring_case(d, q) ==
    Join(<<",", " ">>,
         SelectSeq(get_table_names(d), LAMBDA x : Contains(Upper(q), Upper(x))))

\* line 39 and line 45
all_table_names_text(d) == Join(<<",", " ">>, get_table_names(d))
filter_table_names_text(d, q) ==
    Join(<<",", " ">>, SelectSeq(get_table_names(d), LAMBDA x : Contains(q, x)))

(***************************************************************************)
(* Startup (lines 18-33).                                                  *)
(***************************************************************************)
\* line 22-28: the identity read off the engine for the configured URL
TargetIdentity ==
    [dialect |-> "mssql", version |-> <<16, 0>>, database |-> "app",
     host |-> "db", user |-> "reader"]

NoIdentity ==
    [dialect |-> "", version |-> <<>>, database |-> "", host |-> "", user |-> ""]

DefaultMaxChars == 4000

\* line 33: int(os.environ.get('EXECUTE_QUERY_MAX_CHARS', 4000)); -1 where int()
\* raises ValueError
ConfiguredMaxChars(env) ==
    IF env.MAX_CHARS.set THEN ParseInt(env.MAX_CHARS.text) ELSE DefaultMaxChars

(***************************************************************************)
(* State.                                                                  *)
(***************************************************************************)
Calls == {"c1", "c2"}

NoCursor == [kind |-> "none", columns |-> <<>>, rows |-> <<>>]

\* The locals of one invocation.  engine: the local `engine` refers to an engine.
\* conn: the database connection of that engine, "checked_out" inside the with
\* block, and "pooled" once released to the engine's pool, where it stays open
\* until the engine is disposed of or collected.
IdleCall ==
    [tool |-> "none", pc |-> "idle", query |-> <<>>, params |-> <<>>, q |-> <<>>,
     table_names |-> <<>>, engine |-> FALSE, conn |-> "none", stmt |-> <<>>,
     binds |-> <<>>, cursor |-> NoCursor, fetched |-> FALSE, idx |-> 1,
     texts |-> <<>>, described |-> <<>>, cache |-> <<>>, seen |-> <<>>,
     result |-> <<>>, exc |-> NoExc]

VARIABLES
    environ,                  \* os.environ: DB_URL and EXECUTE_QUERY_MAX_CHARS
    phase,                    \* "import", "serving" or "aborted"
    DB_INFO,                  \* line 31
    EXECUTE_QUERY_MAX_CHARS,  \* line 33
    default_params,           \* the default dict object of execute_query (line 89)
    db,                       \* the database behind DB_URL
    call                      \* the invocations in flight, by caller

vars == <<environ, phase, DB_INFO, EXECUTE_QUERY_MAX_CHARS, default_params, db, call>>

Unset == [set |-> FALSE, text |-> <<>>]
SetTo(t) == [set |-> TRUE, text |-> t]

MaxCharsSettings == {Unset, SetTo(<<"8">>), SetTo(<<"x">>)}

Values == {PyStr(TxtInjection), PyDate(2024, 1, 5)}

ParamsInputs == {<<>>} \cup {<<<<BindV, v>>>> : v \in Values}

QueryInputs ==
    {SqlSelectAll, SqlSelectLower, SqlSelectWhere, SqlInsert, SqlDelete, SqlDropU,
     SqlCreateU, SqlWith, SqlNoTable, SqlProcedure}

\* all sequences over S of length at most n
SeqsUpTo(S, n) == UNION {[1..k -> S] : k \in 0..n}

MaxSubstringLen == 2
SubstringInputs == SeqsUpTo({"t", "u", "T"}, MaxSubstringLen)

\* a name no table has
TableZ == <<"z">>

MaxTableNames == 2
TableNamesInputs == SeqsUpTo({TableT, TableTU, TableU, TableZ}, MaxTableNames)

\* the inputs of the two concurrent callers
ConcurrentQueries == {SqlSelectAll, SqlInsert, SqlDropU}
ConcurrentParams == {<<>>, <<<<BindV, PyStr(TxtInjection)>>>>}
ConcurrentSubstrings == {<<"u">>}
ConcurrentTableNames == {<<TableU, TableT>>}

Init ==
    /\ environ \in [DB_URL : {"valid", "unset", "malformed"},
                    MAX_CHARS : MaxCharsSettings]
    /\ phase = "import"
    /\ DB_INFO = NoIdentity
    /\ EXECUTE_QUERY_MAX_CHARS = 0
    /\ default_params = <<>>
    /\ db = [rows |-> <<>>, hasU |-> TRUE]
    /\ call = [c \in Calls |-> IdleCall]

\* lines 18-33 when nothing raises: get_db_info builds an engine and connects,
\* DB_INFO and EXECUTE_QUERY_MAX_CHARS are set, and the tools are registered
StartupOk ==
    /\ phase = "import"
    /\ get_engine(environ) = NoExc
    /\ ConfiguredMaxChars(environ) >= 0
    /\ phase' = "serving"
    /\ DB_INFO' = TargetIdentity
    /\ EXECUTE_QUERY_MAX_CHARS' = ConfiguredMaxChars(environ)
    /\ UNCHANGED <<environ, default_params, db, call>>

\* lines 18-33 when get_engine, engine.connect() or int() raises: the import
\* fails and the process ends before any tool is served
StartupAbort ==
    /\ phase = "import"
    /\ phase' = "aborted"
    /\ \/ get_engine(environ) # NoExc                  \* line 19 raises
       \/ get_engine(environ) = NoExc                  \* line 20: connect() raises
       \/ /\ get_engine(environ) = NoExc               \* line 33: int() raises
          /\ ConfiguredMaxChars(environ) < 0
    /\ UNCHANGED <<environ, DB_INFO, EXECUTE_QUERY_MAX_CHARS, default_params, db, call>>

\* os.environ is read again by every get_engine() call (line 13); the process
\* environment can change between the import and a call
EnvironChange ==
    /\ phase = "serving"
    /\ \E url \in {"valid", "unset"} :
          /\ url # environ.DB_URL
          /\ environ' = [environ EXCEPT !.DB_URL = url]
    /\ UNCHANGED <<phase, DB_INFO, EXECUTE_QUERY_MAX_CHARS, default_params, db, call>>

Set(c, local) == call' = [call EXCEPT ![c] = local]

\* the invocation ends with a return value, or with an exception that leaves the
\* tool; either way its frame, and with it the reference to the engine, is gone
Returned(local, result) ==
    [local EXCEPT !.pc = "returned", !.result = result, !.engine = FALSE]
Raised(local, exc) ==
    [local EXCEPT !.pc = "raised", !.exc = exc, !.engine = FALSE]

Shared == <<environ, phase, DB_INFO, EXECUTE_QUERY_MAX_CHARS, default_params>>

\* the transport dispatches a tool invocation
InvokeAllTableNames(c) ==
    /\ phase = "serving" /\ call[c].pc = "idle"
    /\ Set(c, [IdleCall EXCEPT !.tool = "all_table_names", !.pc = "get_engine"])
    /\ UNCHANGED <<Shared, db>>

InvokeFilterTableNames(c, substrings) ==
    /\ phase = "serving" /\ call[c].pc = "idle"
    /\ \E q \in substrings :
          Set(c, [IdleCall EXCEPT !.tool = "filter_table_names", !.pc = "get_engine",
                                  !.q = q])
    /\ UNCHANGED <<Shared, db>>

InvokeSchemaDefinitions(c, lists) ==
    /\ phase = "serving" /\ call[c].pc = "idle"
    /\ \E names \in lists :
          Set(c, [IdleCall EXCEPT !.tool = "schema_definitions", !.pc = "get_engine",
                                  !.table_names = names])
    /\ UNCHANGED <<Shared, db>>

InvokeExecuteQuery(c, queries, mappings) ==
    /\ phase = "serving" /\ call[c].pc = "idle"
    /\ \E query \in queries, params \in mappings :
          Set(c, [IdleCall EXCEPT !.tool = "execute_query", !.pc = "get_engine",
                                  !.query = query, !.params = params])
    /\ UNCHANGED <<Shared, db>>

\* lines 37, 43, 76, 98: engine = get_engine(), outside any try block in all four
\* tools, so what it raises leaves the tool
GetEngine(c) ==
    /\ call[c].pc = "get_engine"
    /\ LET e == get_engine(environ) IN
       IF e = NoExc
       THEN Set(c, [call[c] EXCEPT !.engine = TRUE,
                      !.pc = CASE call[c].tool = "execute_query" -> "connect"
                               [] call[c].tool = "schema_definitions" -> "format"
                               [] OTHER -> "inspect"])
       ELSE Set(c, Raised(call[c], e))
    /\ UNCHANGED <<Shared, db>>

ConnectionRefused == Exc("OperationalError", "unable to open database")

\* line 100: engine.connect() inside the try block
Connect(c) ==
    /\ call[c].pc = "connect"
    /\ \/ Set(c, [call[c] EXCEPT !.conn = "checked_out", !.pc = "execute"])
       \/ Set(c, Returned(call[c], ErrorResult(ConnectionRefused)))
    /\ UNCHANGED <<Shared, db>>

\* line 101: conn.execute(text(query), params or {}); when it raises, the with
\* block releases the connection and line 111-112 returns the error
Execute(c) ==
    /\ call[c].pc = "execute"
    /\ LET stmt == StatementText(call[c].query, call[c].params)
           binds == BindValues(call[c].params)
       IN \E out \in DbExecute(db, stmt, binds) :
             /\ db' = out.db
             /\ IF out.kind = "raise"
                THEN Set(c, Returned([call[c] EXCEPT !.stmt = stmt, !.binds = binds,
                                        !.seen = <<db>>, !.conn = "pooled"],
                                      ErrorResult(out.exc)))
                ELSE Set(c, [call[c] EXCEPT !.stmt = stmt, !.binds = binds,
                               !.seen = <<db>>, !.pc = "fetch",
                               !.cursor = [kind |-> out.kind, columns |-> out.columns,
                                           rows |-> out.rows]])
    /\ UNCHANGED Shared

\* the cursor kept in one module-level variable that every invocation writes
SharedCursor(c) ==
    IF \E o \in Calls \ {c} : call[o].cursor.kind # "none"
    THEN call[CHOOSE o \in Calls \ {c} : call[o].cursor.kind # "none"].cursor
    ELSE call[c].cursor

\* line 101: `result` is a local of the invocation
LocalCursor(c) == call[c].cursor

\* lines 102-110, then the with block releases the connection
Fetch(c) ==
    /\ call[c].pc = "fetch"
    /\ LET r == FetchAndShape(call[c].query, LocalCursor(c)) IN
       Set(c, Returned([call[c] EXCEPT !.fetched = r.fetched, !.conn = "pooled"],
                       r.result))
    /\ UNCHANGED <<Shared, db>>


\* lines 38-39 and 44-45: inspect(engine) and get_table_names(); the inspector
\* checks a connection out and releases it; nothing catches what it raises
Inspect(c) ==
    /\ call[c].pc = "inspect"
    /\ \/ Set(c, Raised(call[c], ConnectionRefused))
       \/ Set(c, Returned([call[c] EXCEPT !.seen = <<db>>, !.conn = "pooled"],
                          IF call[c].tool = "all_table_names"
                          THEN all_table_names_text(db)
                          ELSE filter_table_names_text(db, call[c].q)))
    /\ UNCHANGED <<Shared, db>>

\* The inspector keeps what it reflected in its info_cache and hands the same
\* dict objects out again when a table is asked for twice: the second pass of
\* format meets column dicts whose "name" and "type" entries were popped.
CacheHas(cache, table_name) == DictHas(cache, table_name)

\* inspector.get_columns(table_name) (line 50): NoSuchTableError for a table the
\* database does not have
get_columns(cache, d, table_name) ==
    IF CacheHas(cache, table_name)
    THEN [exc |-> NoExc, columns |-> DictGet(cache, table_name)]
    ELSE IF HasTable(d, table_name)
    THEN [exc |-> NoExc, columns |-> ReflectedColumns(table_name)]
    ELSE [exc |-> NoSuchTableError(table_name), columns |-> <<>>]

\* one turn of the generator of line 78: format(inspector, table_name) for the
\* next table, as a function of the invocation's locals and the database
FormatNext(local, d) ==
    LET table_name == local.table_names[local.idx]
        got == get_columns(local.cache, d, table_name)
    IN IF got.exc # NoExc
       THEN Raised([local EXCEPT !.seen = Append(@, d), !.conn = "pooled"], got.exc)
       ELSE LET f == format(table_name, got.columns, ReflectedForeignKeys(table_name),
                            ReflectedPrimaryKey(table_name))
                cache == IF CacheHas(local.cache, table_name)
                         THEN [i \in 1..Len(local.cache) |->
                                  IF local.cache[i][1] = table_name
                                  THEN <<table_name, f.left>> ELSE local.cache[i]]
                         ELSE Append(local.cache, <<table_name, f.left>>)
            IN IF f.raised
               THEN Raised([local EXCEPT !.seen = Append(@, d), !.conn = "pooled",
                                         !.cache = cache],
                           Exc("KeyError", "'name'"))
               ELSE [local EXCEPT !.seen = Append(@, d), !.conn = "pooled",
                                  !.cache = cache, !.idx = @ + 1,
                                  !.texts = Append(@, f.text),
                                  !.described = Append(@, f.described)]

\* lines 49-74 for the next requested table
Format(c) ==
    /\ call[c].pc = "format"
    /\ call[c].idx <= Len(call[c].table_names)
    /\ \/ Set(c, Raised(call[c], ConnectionRefused))
       \/ Set(c, FormatNext(call[c], db))
    /\ UNCHANGED <<Shared, db>>

\* line 78: "\n".join(...) once the generator is exhausted
SchemaJoin(local) == Returned(local, Join(<<"\n">>, local.texts))

SchemaReturn(c) ==
    /\ call[c].pc = "format"
    /\ call[c].idx > Len(call[c].table_names)
    /\ Set(c, SchemaJoin(call[c]))
    /\ UNCHANGED <<Shared, db>>

\* Nothing disposes of the engine a tool builds.  Once the invocation is over the
\* engine is garbage, its pool still holding the connection; when the collector
\* reclaims it, the pool and the database connection in it are closed.
Collect(c) ==
    /\ call[c].pc \in {"returned", "raised"}
    /\ Set(c, IdleCall)
    /\ UNCHANGED <<Shared, db>>

\* every step of an invocation after its dispatch
Step(c) ==
    \/ GetEngine(c)
    \/ Connect(c)
    \/ Execute(c)
    \/ Fetch(c)
    \/ Inspect(c)
    \/ Format(c)
    \/ SchemaReturn(c)
    \/ Collect(c)

\* One caller, one invocation at a time, over the full input sets.
Next ==
    \/ StartupOk
    \/ StartupAbort
    \/ EnvironChange
    \/ InvokeAllTableNames("c1")
    \/ InvokeFilterTableNames("c1", SubstringInputs)
    \/ InvokeSchemaDefinitions("c1", TableNamesInputs)
    \/ InvokeExecuteQuery("c1", QueryInputs, ParamsInputs)
    \/ Step("c1")

Spec == Init /\ [][Next]_vars

\* Two callers whose invocations interleave step by step.
NextConcurrent ==
    \/ StartupOk
    \/ StartupAbort
    \/ \E c \in Calls :
          \/ InvokeAllTableNames(c)
          \/ InvokeFilterTableNames(c, ConcurrentSubstrings)
          \/ InvokeSchemaDefinitions(c, ConcurrentTableNames)
          \/ InvokeExecuteQuery(c, ConcurrentQueries, ConcurrentParams)
          \/ Step(c)

SpecConcurrent == Init /\ [][NextConcurrent]_vars
(***************************************************************************)
(* The claims.                                                             *)
(***************************************************************************)
Keys(d) == {d[i][1] : i \in 1..Len(d)}

Finished(c) == call[c].pc \in {"returned", "raised"}

\* the statement of an execute_query invocation ran and left a cursor
ExecutedOk(c) ==
    /\ call[c].tool = "execute_query"
    /\ call[c].pc = "returned"
    /\ call[c].cursor.kind # "none"

\* C1: no exception ever escapes execute_query, whatever fails: building the
\* engine, connecting, executing or fetching.
C1_NoExceptionEscapes ==
    \A c \in Calls : call[c].tool = "execute_query" => call[c].pc # "raised"

RECURSIVE TotalLen(_)
TotalLen(texts) == IF texts = <<>> THEN 0 ELSE Len(Head(texts)) + TotalLen(Tail(texts))

RECURSIVE RowsLen(_)
RowsLen(rows) == IF rows = <<>> THEN 0 ELSE TotalLen(Head(rows)) + RowsLen(Tail(rows))

\* the characters of the column names and cells a returned result carries; any
\* serialisation of the result is at least this long
FormattedSize(result) ==
    TotalLen(DictGet(result, "columns")) + RowsLen(DictGet(result, "rows"))

\* C2: a returned result whose formatted size exceeds EXECUTE_QUERY_MAX_CHARS is
\* truncated to the budget, and the truncation is signalled in the payload.
C2_TruncatedToBudget ==
    \A c \in Calls :
        (call[c].tool = "execute_query" /\ call[c].pc = "returned"
            /\ DictHas(call[c].result, "rows"))
        => \/ FormattedSize(call[c].result) <= EXECUTE_QUERY_MAX_CHARS
           \/ DictHas(call[c].result, "truncated")

\* the characters of an SQL identifier or keyword
IdentChars == {LowerLetters[i] : i \in 1..26} \cup {UpperLetters[i] : i \in 1..26}
              \cup {"0", "1", "2", "3", "4", "5", "6", "7", "8", "9", "_"}

\* the first token of a statement: the identifier characters that follow its
\* leading whitespace
RECURSIVE TakeIdent(_)
TakeIdent(s) ==
    IF s = <<>> \/ Head(s) \notin IdentChars THEN <<>>
    ELSE <<Head(s)>> \o TakeIdent(Tail(s))

FirstTokenIsSelect(query) == Upper(TakeIdent(LStrip(query))) = TxtSELECT

\* the six characters that follow the leading whitespace spell SELECT in any case
LeadingCharsSpellSelect(query) ==
    LET s == LStrip(query) IN
    Len(s) >= 6 /\ \A i \in 1..6 : UpperChar(s[i]) = TxtSELECT[i]

RowsResultOf(c) ==
    /\ Keys(call[c].result) = {"columns", "rows"}
    /\ DictGet(call[c].result, "columns") = call[c].cursor.columns
    /\ call[c].cursor.columns # <<>>
    /\ Len(DictGet(call[c].result, "rows")) = Len(call[c].cursor.rows)

AcknowledgedOnly(c) ==
    /\ ~call[c].fetched
    /\ Keys(call[c].result) = {"status"}
    /\ DictGet(call[c].result, "status") = "ok"

\* C3 as claimed: a successfully executed statement is a read exactly when its
\* first token is SELECT; a read returns columns and rows, anything else returns
\* {status: "ok"} without fetching.
C3_FirstTokenDecides ==
    \A c \in Calls :
        ExecutedOk(c) =>
            IF FirstTokenIsSelect(call[c].query)
            THEN call[c].fetched /\ RowsResultOf(c)
            ELSE AcknowledgedOnly(c)

\* C3 as amended: a successfully executed statement is a read exactly when the
\* text after its leading whitespace begins with the characters SELECT in any
\* case, whether or not the token ends there; a read whose cursor returns rows
\* returns columns and rows, a read whose cursor returns none returns an error,
\* and anything else returns {status: "ok"} without fetching.
C3_LeadingCharsDecide ==
    \A c \in Calls :
        ExecutedOk(c) =>
            IF LeadingCharsSpellSelect(call[c].query)
            THEN /\ call[c].fetched
                 /\ IF call[c].cursor.kind = "rows" THEN RowsResultOf(c)
                    ELSE Keys(call[c].result) = {"error"}
            ELSE AcknowledgedOnly(c)

\* a lower-case SELECT behind leading whitespace matched no row
C3_Witness ==
    \E c \in Calls :
        /\ ExecutedOk(c)
        /\ call[c].query = SqlSelectLower
        /\ DictGet(call[c].result, "rows") = <<>>
        /\ DictGet(call[c].result, "columns") = <<<<"a">>, <<"n">>>>

\* C4: every finished invocation of execute_query returned a value, and the value
\* has the keys of exactly one of the three shapes.
C4_ExactlyOneShape ==
    \A c \in Calls :
        (call[c].tool = "execute_query" /\ Finished(c))
        => /\ call[c].pc = "returned"
           /\ Keys(call[c].result) \in {{"columns", "rows"}, {"status"}, {"error"}}

\* the driver was handed the statement of this invocation
HandedToDriver(c) == call[c].tool = "execute_query" /\ call[c].seen # <<>>

\* C5: the statement text handed to the driver is the caller's query unchanged and
\* the params travel as bind values; two invocations with the same query execute
\* the same text whatever their params, and no string value of params that the
\* query does not already contain appears in the executed text.
C5_ParamsAreBound ==
    /\ \A c \in Calls :
          HandedToDriver(c) =>
              /\ call[c].stmt = call[c].query
              /\ call[c].binds = call[c].params
              /\ \A i \in 1..Len(call[c].params) :
                    LET v == call[c].params[i][2] IN
                    (v.kind = "str" /\ ~Contains(v.text, call[c].query))
                        => ~Contains(v.text, call[c].stmt)
    /\ \A c1, c2 \in Calls :
          (HandedToDriver(c1) /\ HandedToDriver(c2) /\ call[c1].query = call[c2].query)
              => call[c1].stmt = call[c2].stmt

\* two invocations ran the same INSERT, one of them with the hostile value bound
C5_Witness ==
    \E c1, c2 \in Calls :
        /\ HandedToDriver(c1) /\ HandedToDriver(c2)
        /\ call[c1].query = SqlInsert /\ call[c2].query = SqlInsert
        /\ call[c1].params = <<<<BindV, PyStr(TxtInjection)>>>>
        /\ call[c2].params = <<>>

\* C6: once a tool call is over, on any exit path, it holds no engine and no
\* database connection it acquired is still open.
C6_NothingHeldAfterReturn ==
    \A c \in Calls : Finished(c) => (~call[c].engine /\ call[c].conn = "none")

SchemaTools == {"all_table_names", "filter_table_names", "schema_definitions"}

\* C7: no error of a schema tool is thrown across the tool boundary; a missing
\* table in particular ends the call with a returned error, not an exception.
C7_SchemaErrorsAreReturned ==
    \A c \in Calls : call[c].tool \in SchemaTools => call[c].pc # "raised"

\* x = pre \o q \o post for some pre and post
OccursIn(q, x) ==
    \E i \in 0..Len(x), j \in 0..Len(x) :
        i <= j /\ SubSeq(x, i + 1, j) = q

RECURSIVE NamesContaining(_, _)
NamesContaining(names, q) ==
    IF names = <<>> THEN <<>>
    ELSE (IF OccursIn(q, Head(names)) THEN <<Head(names)>> ELSE <<>>)
             \o NamesContaining(Tail(names), q)

\* C8: filter_table_names(q) returns, joined as all_table_names() joins them, the
\* names of the database that contain q case-sensitively, in the same order; with
\* q empty it returns what all_table_names() returns.
C8_FilterIsSubsequence ==
    \A c \in Calls :
        call[c].pc = "returned" =>
            LET names == get_table_names(call[c].seen[1]) IN
            /\ call[c].tool = "all_table_names"
                  => call[c].result = Join(<<",", " ">>, names)
            /\ call[c].tool = "filter_table_names"
                  => /\ call[c].result
                          = Join(<<",", " ">>, NamesContaining(names, call[c].q))
                     /\ call[c].q = <<>>
                          => call[c].result = all_table_names_text(call[c].seen[1])

\* q = "u" kept tu and u and dropped t
C8_Witness ==
    \E c \in Calls :
        /\ call[c].pc = "returned" /\ call[c].tool = "filter_table_names"
        /\ call[c].q = <<"u">>
        /\ call[c].result = <<"t", "u", ",", " ", "u">>

\* C9: in the output of schema_definitions every requested table is described,
\* a column carries the primary-key mark exactly when its name is in the table's
\* primary-key constraint, and nothing of a column's comment is in the output.
C9_PrimaryKeyMarks ==
    \A c \in Calls :
        (call[c].tool = "schema_definitions" /\ call[c].pc = "returned") =>
            /\ Len(call[c].described) = Len(call[c].table_names)
            /\ ~Contains(TxtComment, call[c].result)
            /\ \A i \in 1..Len(call[c].described) :
                  LET d == call[c].described[i]
                      pk == ReflectedPrimaryKey(d.table)
                  IN /\ d.table = call[c].table_names[i]
                     /\ Len(d.columns) = Len(ReflectedColumns(d.table))
                     /\ \A k \in 1..Len(d.columns) :
                           /\ d.columns[k].parts[1] = TxtPrimaryKey
                                 <=> d.columns[k].name \in pk
                           /\ \A n \in 1..Len(d.columns[k].parts) :
                                 ~StartsWith(d.columns[k].parts[n], TxtComment)
                           /\ Contains(<<" ", " ", " ", " ">> \o d.columns[k].name
                                           \o <<":", " ">>
                                           \o Join(<<",", " ">>, d.columns[k].parts),
                                       call[c].result)

\* the composite key of u: k1 and k2 are marked, c is not, and c's comment is gone
C9_Witness ==
    \E c \in Calls :
        /\ call[c].tool = "schema_definitions" /\ call[c].pc = "returned"
        /\ call[c].table_names = <<TableU, TableT>>
        /\ call[c].described[1].columns[1].parts[1] = TxtPrimaryKey
        /\ call[c].described[1].columns[2].parts[1] = TxtPrimaryKey
        /\ call[c].described[1].columns[3].parts = <<TypeTEXT, TxtNullable>>

\* what an execute_query invocation can return when it runs alone against
\* database d
ExecuteAlone(query, params, d) ==
    {IF out.kind = "raise" THEN ErrorResult(out.exc)
     ELSE FetchAndShape(query, out).result : out \in DbExecute(d, query, params)}

\* schema_definitions run alone, reading the database states in `snapshots` one
\* after the other
RECURSIVE SchemaAlone(_, _)
SchemaAlone(local, snapshots) ==
    IF local.pc # "format" THEN local
    ELSE IF local.idx > Len(local.table_names) THEN SchemaJoin(local)
    ELSE IF snapshots = <<>> THEN local
    ELSE SchemaAlone(FormatNext(local, Head(snapshots)), Tail(snapshots))

AloneResults(local) ==
    CASE local.tool = "execute_query" ->
           IF local.seen = <<>> THEN {ErrorResult(ConnectionRefused)}
           ELSE ExecuteAlone(local.query, local.params, local.seen[1])
      [] local.tool = "all_table_names" -> {all_table_names_text(local.seen[1])}
      [] local.tool = "filter_table_names" ->
           {filter_table_names_text(local.seen[1], local.q)}
      [] OTHER ->
           {SchemaAlone([IdleCall EXCEPT !.tool = "schema_definitions",
                                         !.pc = "format", !.engine = TRUE,
                                         !.table_names = local.table_names],
                        local.seen).result}

\* C10: while tools are served DB_INFO is the identity computed at startup, the
\* default params mapping stays empty, and every value an invocation returns is
\* one it returns when run alone against the database states it read, however
\* the other invocation's steps fall between its own.
C10_InvocationsAreIsolated ==
    /\ phase = "serving" => DB_INFO = TargetIdentity
    /\ phase # "serving" => DB_INFO = NoIdentity
    /\ default_params = <<>>
    /\ \A c \in Calls :
          call[c].pc = "returned" => call[c].result \in AloneResults(call[c])

\* schema_definitions returned both descriptions although the other caller's
\* DROP TABLE u ran between its two reads, and that caller has returned as well
C10_Witness ==
    \E c, o \in Calls :
        /\ c # o
        /\ call[c].tool = "schema_definitions" /\ call[c].pc = "returned"
        /\ Len(call[c].seen) = 2
        /\ call[c].seen[1].hasU /\ ~call[c].seen[2].hasU
        /\ call[o].tool = "execute_query" /\ call[o].pc = "returned"
        /\ call[o].query = SqlDropU
        /\ call[o].result = StatusOk
====
